---------------------------- MODULE Spec2Model ----------------------------
(***************************************************************************)
(* Survivor's Echo (src/main.py): the tile world, the inventory, crafting, *)
(* the per-frame update, and the save/load snapshot.                       *)
(*                                                                         *)
(* Units.  Time is in whole seconds (dt), positions in whole pixels.  The  *)
(* four vital stats are kept in TENTHS of a point, so that the rates of    *)
(* the source (0.5/s, 0.9/s, 5/s, 7/s, 10/s) are integers: a source value  *)
(* v is the model value 10*v, and MAX_HEALTH = 100 is 1000 tenths.         *)
(* None is the string "none".                                              *)
(*                                                                         *)
(* History.  death_paused records that line 509 has set paused for a       *)
(* death at some earlier frame; the program does not keep it.              *)
(***************************************************************************)
EXTENDS Integers, Sequences, FiniteSets, TLC

VARIABLES world, player, entities, time_of_day, paused, build_mode, camera,
          crashed, file, frames_left, ledger, last, death_paused

vars == <<world, player, entities, time_of_day, paused, build_mode, camera,
          crashed, file, frames_left, ledger, last, death_paused>>

---------------------------------------------------------------------------
(* Configuration & constants, main.py:36-67 *)

SCREEN_WIDTH == 1280
SCREEN_HEIGHT == 720
TILE_SIZE == 32
MAX_HEALTH == 100
MAX_HUNGER == 100
MAX_THIRST == 100
MAX_STAMINA == 100
DAY_LENGTH == 300

(* a source quantity in points, as tenths *)
Tenths(v) == v * 10

None == "none"

(* ---- bounds of the model ---- *)
MaxAmount == 2          \* harvest / add / remove amounts are 1..MaxAmount
MaxStock == 3           \* per id, the adds of an add/remove sequence total at most this
SmallCapacity == 2      \* the small Inventory(capacity=...) the model also runs
MaxFrames == 5          \* frames (Game.update calls) explored per behaviour
PersistFrames == 1      \* frames explored in the save/load specification

---------------------------------------------------------------------------
(* a clamp that lets every value through *)
Unclamped(n, a, b) == n

(* Utility functions, main.py:76-89 *)

Min(a, b) == IF a < b THEN a ELSE b
Max(a, b) == IF a > b THEN a ELSE b

clamp(n, a, b) == Max(a, Min(b, n))

(* Python's // on integers floors; TLA+'s \div floors too. *)
screen_to_world(sx, sy, cam_x, cam_y) ==
    << (sx - SCREEN_WIDTH \div 2 + cam_x) \div TILE_SIZE,
       (sy - SCREEN_HEIGHT \div 2 + cam_y) \div TILE_SIZE >>

(* int(a / b) for b > 0: the float quotient truncated toward zero *)
TruncDiv(a, b) == IF a >= 0 THEN a \div b ELSE -((-a) \div b)

(* math.hypot on integer arguments, to the whole pixel below *)
Hypot(dx, dy) ==
    LET n == dx * dx + dy * dy
        m == Max(IF dx < 0 THEN -dx ELSE dx, IF dy < 0 THEN -dy ELSE dy)
    IN  CHOOSE r \in m..(2 * m) : r * r <= n /\ n < (r + 1) * (r + 1)

---------------------------------------------------------------------------
(* World & Tile system, main.py:95-203 *)

TILE_GRASS == "grass"
TILE_WATER == "water"
TILE_FOREST == "forest"
TILE_ROCK == "rock"
TILE_SAND == "sand"
RESOURCE_TREE == "tree"
RESOURCE_STONE == "stone"
RESOURCE_BUSH == "bush"

Tile(k, r, a, b) == [kind |-> k, resource |-> r, resource_amount |-> a, built |-> b]

(* World.generate under random.seed(42): the tiles it makes, in the order  *)
(* it makes them (x outer, y inner).  The stream is fixed by the seed, so  *)
(* the k-th cell visited always gets the k-th tile of this list.           *)
Seed42Tiles ==
    << Tile(TILE_GRASS, RESOURCE_BUSH, 3, None),
       Tile(TILE_ROCK, RESOURCE_STONE, 3, None),
       Tile(TILE_GRASS, None, 0, None),
       Tile(TILE_GRASS, None, 0, None),
       Tile(TILE_GRASS, RESOURCE_BUSH, 2, None),
       Tile(TILE_ROCK, RESOURCE_STONE, 6, None),
       Tile(TILE_WATER, None, 0, None),
       Tile(TILE_FOREST, RESOURCE_TREE, 8, None),
       Tile(TILE_GRASS, None, 0, None),
       Tile(TILE_GRASS, None, 0, None),
       Tile(TILE_GRASS, None, 0, None),
       Tile(TILE_FOREST, RESOURCE_TREE, 6, None),
       Tile(TILE_SAND, None, 0, None),
       Tile(TILE_FOREST, RESOURCE_TREE, 5, None),
       Tile(TILE_FOREST, RESOURCE_TREE, 6, None),
       Tile(TILE_FOREST, RESOURCE_TREE, 5, None) >>

(* World(w, h): tiles[x][y] is tiles[x + 1][y + 1] here (sequences are 1-based) *)
NewWorld(w, h) ==
    [w |-> w, h |-> h,
     tiles |-> [x \in 1..w |-> [y \in 1..h |-> Seed42Tiles[(x - 1) * h + y]]]]

in_bounds(wd, tx, ty) == 0 <= tx /\ tx < wd.w /\ 0 <= ty /\ ty < wd.h

(* get_tile: only used where in_bounds holds; the None result is the      *)
(* in_bounds test at each caller                                           *)
get_tile(wd, tx, ty) == wd.tiles[tx + 1][ty + 1]

SetTile(wd, tx, ty, t) == [wd EXCEPT !.tiles[tx + 1][ty + 1] = t]

(* harvest that forgets to turn a depleted Forest / Rock tile into Grass *)
HarvestedTileKeepsKind(tile, taken) ==
    LET left == tile.resource_amount - taken
    IN  IF left <= 0
        THEN [tile EXCEPT !.resource_amount = left, !.resource = None]
        ELSE [tile EXCEPT !.resource_amount = left]

(* harvest that forgets to clear the resource of a depleted tile *)
HarvestedTileKeepsResource(tile, taken) ==
    [tile EXCEPT !.resource_amount = tile.resource_amount - taken]

(* the tile after World.harvest took `taken` from it *)
HarvestedTile(tile, taken) ==
    LET left == tile.resource_amount - taken
    IN  IF left <= 0
        THEN [tile EXCEPT !.resource_amount = left,
                          !.resource = None,
                          !.kind = IF tile.kind \in {TILE_FOREST, TILE_ROCK}
                                   THEN TILE_GRASS ELSE tile.kind]
        ELSE [tile EXCEPT !.resource_amount = left]

(* World.harvest: the world afterwards and the value returned *)
harvest(wd, tx, ty, amount) ==
    IF ~in_bounds(wd, tx, ty) \/ get_tile(wd, tx, ty).resource = None
    THEN [world |-> wd, ret |-> 0]
    ELSE LET tile == get_tile(wd, tx, ty)
             taken == Min(amount, tile.resource_amount)
         IN  [world |-> SetTile(wd, tx, ty, HarvestedTile(tile, taken)), ret |-> taken]

(* place_structure that does not look for a structure already there *)
place_structure_over(wd, tx, ty, structure_name) ==
    IF ~in_bounds(wd, tx, ty)
    THEN [world |-> wd, ret |-> FALSE]
    ELSE [world |-> SetTile(wd, tx, ty, [get_tile(wd, tx, ty) EXCEPT !.built = structure_name]),
          ret |-> TRUE]

place_structure(wd, tx, ty, structure_name) ==
    IF ~in_bounds(wd, tx, ty) \/ get_tile(wd, tx, ty).built # None
    THEN [world |-> wd, ret |-> FALSE]
    ELSE [world |-> SetTile(wd, tx, ty, [get_tile(wd, tx, ty) EXCEPT !.built = structure_name]),
          ret |-> TRUE]

remove_structure(wd, tx, ty) ==
    IF ~in_bounds(wd, tx, ty) \/ get_tile(wd, tx, ty).built = None
    THEN [world |-> wd, ret |-> FALSE]
    ELSE [world |-> SetTile(wd, tx, ty, [get_tile(wd, tx, ty) EXCEPT !.built = None]),
          ret |-> TRUE]

---------------------------------------------------------------------------
(* Player & Inventory, main.py:209-289 *)

Item(id, name, amount) == [id |-> id, name |-> name, amount |-> amount]

DefaultCapacity == 30

(* Inventory(capacity=c): items is the dict, in insertion order *)
NewInventory(c) == [items |-> << >>, capacity |-> c]

(* position of item_id in the dict, 0 when absent *)
InvIndex(items, item_id) ==
    IF \E i \in 1..Len(items) : items[i].id = item_id
    THEN CHOOSE i \in 1..Len(items) : items[i].id = item_id
    ELSE 0

(* del items[i] *)
DelAt(items, i) == [j \in 1..(Len(items) - 1) |-> IF j < i THEN items[j] ELSE items[j + 1]]

(* add that never looks at the capacity *)
InvAddUnbounded(inv, item_id, name, amount) ==
    LET i == InvIndex(inv.items, item_id)
    IN  IF i # 0
        THEN [inv |-> [inv EXCEPT !.items[i].amount = @ + amount], ret |-> TRUE]
        ELSE [inv |-> [inv EXCEPT !.items = Append(@, Item(item_id, name, amount))],
              ret |-> TRUE]

(* Inventory.add: the inventory afterwards and the value returned *)
InvAdd(inv, item_id, name, amount) ==
    LET i == InvIndex(inv.items, item_id)
    IN  IF i # 0
        THEN [inv |-> [inv EXCEPT !.items[i].amount = @ + amount], ret |-> TRUE]
        ELSE IF Len(inv.items) >= inv.capacity
        THEN [inv |-> inv, ret |-> FALSE]
        ELSE [inv |-> [inv EXCEPT !.items = Append(@, Item(item_id, name, amount))],
              ret |-> TRUE]

(* remove that takes what there is when the stock is short *)
InvRemovePartial(inv, item_id, amount) ==
    LET i == InvIndex(inv.items, item_id)
    IN  IF i = 0
        THEN [inv |-> inv, ret |-> FALSE]
        ELSE IF inv.items[i].amount <= amount
        THEN [inv |-> [inv EXCEPT !.items = DelAt(@, i)], ret |-> inv.items[i].amount = amount]
        ELSE [inv |-> [inv EXCEPT !.items[i].amount = @ - amount], ret |-> TRUE]

(* remove that leaves an emptied stack in the dict *)
InvRemoveKeepsEmpty(inv, item_id, amount) ==
    LET i == InvIndex(inv.items, item_id)
    IN  IF i = 0 \/ inv.items[i].amount < amount
        THEN [inv |-> inv, ret |-> FALSE]
        ELSE [inv |-> [inv EXCEPT !.items[i].amount = @ - amount], ret |-> TRUE]

(* Inventory.remove *)
InvRemove(inv, item_id, amount) ==
    LET i == InvIndex(inv.items, item_id)
    IN  IF i = 0
        THEN [inv |-> inv, ret |-> FALSE]
        ELSE IF inv.items[i].amount < amount
        THEN [inv |-> inv, ret |-> FALSE]
        ELSE IF inv.items[i].amount - amount = 0
        THEN [inv |-> [inv EXCEPT !.items = DelAt(@, i)], ret |-> TRUE]
        ELSE [inv |-> [inv EXCEPT !.items[i].amount = @ - amount], ret |-> TRUE]

(* Inventory.has *)
InvHas(inv, item_id, amount) ==
    LET i == InvIndex(inv.items, item_id)
    IN  i # 0 /\ inv.items[i].amount >= amount

(* stock held for an id: 0 when the id is absent *)
Stock(inv, item_id) ==
    LET i == InvIndex(inv.items, item_id)
    IN  IF i = 0 THEN 0 ELSE inv.items[i].amount

(* Inventory.to_list: one JSON object per stack, in dict order *)
to_list(inv) ==
    [i \in 1..Len(inv.items) |->
        [id |-> inv.items[i].id, name |-> inv.items[i].name, amount |-> inv.items[i].amount]]

(* a JSON object lacks none of the keys ks *)
HasKeys(d, ks) == ks \subseteq DOMAIN d

(* the dict comprehension of from_list over lst[1..n]: a repeated id keeps *)
(* its first position and takes the later value                            *)
RECURSIVE DictOf(_, _)
DictOf(lst, n) ==
    IF n = 0 THEN << >>
    ELSE LET d == DictOf(lst, n - 1)
             it == Item(lst[n].id, lst[n].name, lst[n].amount)
             i == InvIndex(d, it.id)
         IN  IF i = 0 THEN Append(d, it) ELSE [d EXCEPT ![i] = it]

from_list_raises(lst) == \E i \in 1..Len(lst) : ~HasKeys(lst[i], {"id", "name", "amount"})

(* Inventory.from_list: a default Inventory() whose items are replaced *)
from_list(lst) == [items |-> DictOf(lst, Len(lst)), capacity |-> DefaultCapacity]

(* Player(x, y): angle and attack_power never change and are not modelled *)
NewPlayer(x, y, inv) ==
    [x |-> x, y |-> y, health |-> Tenths(MAX_HEALTH), hunger |-> 0, thirst |-> 0,
     stamina |-> Tenths(MAX_STAMINA), inventory |-> inv, equipped |-> None]

(* Player.to_dict *)
player_to_dict(p) ==
    [x |-> p.x, y |-> p.y, health |-> p.health, hunger |-> p.hunger,
     thirst |-> p.thirst, stamina |-> p.stamina,
     inventory |-> to_list(p.inventory), equipped |-> p.equipped]

player_from_dict_raises(d) ==
    \/ ~HasKeys(d, {"x", "y", "health", "hunger", "thirst", "stamina", "inventory", "equipped"})
    \/ from_list_raises(d.inventory)

(* Player.from_dict *)
player_from_dict(d) ==
    [x |-> d.x, y |-> d.y, health |-> d.health, hunger |-> d.hunger,
     thirst |-> d.thirst, stamina |-> d.stamina,
     inventory |-> from_list(d.inventory), equipped |-> d.equipped]

(* World.to_dict: every tile as {'k','r','a','b'}, a list of columns *)
world_to_dict(wd) ==
    [w |-> wd.w, h |-> wd.h,
     tiles |-> [x \in 1..wd.w |-> [y \in 1..wd.h |->
                  [k |-> wd.tiles[x][y].kind, r |-> wd.tiles[x][y].resource,
                   a |-> wd.tiles[x][y].resource_amount, b |-> wd.tiles[x][y].built]]]]

world_from_dict_raises(data) ==
    \/ ~HasKeys(data, {"w", "h", "tiles"})
    \/ Len(data.tiles) < data.w
    \/ \E x \in 1..data.w :
          \/ Len(data.tiles[x]) < data.h
          \/ \E y \in 1..data.h : ~HasKeys(data.tiles[x][y], {"k", "r", "a", "b"})

(* a from_dict that forgets the structures *)
world_from_dict_unbuilt(data) ==
    [w |-> data.w, h |-> data.h,
     tiles |-> [x \in 1..data.w |-> [y \in 1..data.h |->
                  Tile(data.tiles[x][y].k, data.tiles[x][y].r, data.tiles[x][y].a, None)]]]

(* World.from_dict: World(w, h), then every tile replaced by its cell *)
world_from_dict(data) ==
    [w |-> data.w, h |-> data.h,
     tiles |-> [x \in 1..data.w |-> [y \in 1..data.h |->
                  Tile(data.tiles[x][y].k, data.tiles[x][y].r,
                       data.tiles[x][y].a, data.tiles[x][y].b)]]]

---------------------------------------------------------------------------
(* Entities, main.py:295-338 *)

EntitySpeed == 40

(* Entity(x, y): target and radius never change and are not modelled *)
NewEntity(x, y) == [x |-> x, y |-> y, vx |-> 0, vy |-> 0, health |-> 50, state |-> "idle"]

(* The random draws of one Entity.update.  roam: 0 = the 1% roll fails,    *)
(* 1..4 = it succeeds with angle 0, tau/4, tau/2, 3tau/4; stop: the 0.5%   *)
(* roll; panic: the 30% roll.  A draw the code does not make is fixed.     *)
RollsFor(e) ==
    { r \in [roam : 0..4, stop : BOOLEAN, panic : BOOLEAN] :
        /\ (e.state # "idle" => r.roam = 0)
        /\ (e.state # "roam" => ~r.stop)
        /\ (e.health >= 20 => ~r.panic) }

RoamVx(k) == CASE k = 1 -> EntitySpeed [] k = 3 -> -EntitySpeed [] OTHER -> 0
RoamVy(k) == CASE k = 2 -> EntitySpeed [] k = 4 -> -EntitySpeed [] OTHER -> 0

(* a stop that leaves the roaming velocity in place *)
WanderKeepsVelocity(e, r) ==
    IF e.state = "idle" /\ r.roam # 0
    THEN [e EXCEPT !.state = "roam", !.vx = RoamVx(r.roam), !.vy = RoamVy(r.roam)]
    ELSE IF e.state = "roam" /\ r.stop
    THEN [e EXCEPT !.state = "idle"]
    ELSE e

(* lines 309-319: the idle / roam rolls *)
Wander(e, r) ==
    IF e.state = "idle" /\ r.roam # 0
    THEN [e EXCEPT !.state = "roam", !.vx = RoamVx(r.roam), !.vy = RoamVy(r.roam)]
    ELSE IF e.state = "roam" /\ r.stop
    THEN [e EXCEPT !.state = "idle", !.vx = 0, !.vy = 0]
    ELSE e

(* a pursuit that costs the attacker 10 health each time *)
PursueTires(e, px, py) ==
    LET dx == px - e.x
        dy == py - e.y
    IN  IF dx * dx + dy * dy < 150 * 150
        THEN IF dx = 0 /\ dy = 0
             THEN [e |-> [e EXCEPT !.state = "attack"], raised |-> TRUE]
             ELSE [e |-> [e EXCEPT !.state = "attack",
                                   !.health = @ - 10,
                                   !.vx = TruncDiv(dx * ((EntitySpeed * 12) \div 10), Hypot(dx, dy)),
                                   !.vy = TruncDiv(dy * ((EntitySpeed * 12) \div 10), Hypot(dx, dy))],
                   raised |-> FALSE]
        ELSE [e |-> e, raised |-> FALSE]

(* a pursuit that is given up once the player is 150 or more away *)
PursueOrRest(e, px, py) ==
    LET dx == px - e.x
        dy == py - e.y
    IN  IF dx * dx + dy * dy < 150 * 150
        THEN IF dx = 0 /\ dy = 0
             THEN [e |-> [e EXCEPT !.state = "attack"], raised |-> TRUE]
             ELSE [e |-> [e EXCEPT !.state = "attack",
                                   !.vx = TruncDiv(dx * ((EntitySpeed * 12) \div 10), Hypot(dx, dy)),
                                   !.vy = TruncDiv(dy * ((EntitySpeed * 12) \div 10), Hypot(dx, dy))],
                   raised |-> FALSE]
        ELSE IF e.state = "attack"
        THEN [e |-> [e EXCEPT !.state = "idle", !.vx = 0, !.vy = 0], raised |-> FALSE]
        ELSE [e |-> e, raised |-> FALSE]

(* lines 321-328: dist < 150.  The state is set before the two divisions  *)
(* by dist, which raise ZeroDivisionError when dist is 0.                  *)
Pursue(e, px, py) ==
    LET dx == px - e.x
        dy == py - e.y
    IN  IF dx * dx + dy * dy < 150 * 150
        THEN IF dx = 0 /\ dy = 0
             THEN [e |-> [e EXCEPT !.state = "attack"], raised |-> TRUE]
             ELSE [e |-> [e EXCEPT !.state = "attack",
                                   !.vx = TruncDiv(dx * ((EntitySpeed * 12) \div 10), Hypot(dx, dy)),
                                   !.vy = TruncDiv(dy * ((EntitySpeed * 12) \div 10), Hypot(dx, dy))],
                   raised |-> FALSE]
        ELSE [e |-> e, raised |-> FALSE]

(* lines 330-334: atan2(0, 0) is 0, so at distance 0 the flight is along +x *)
Panic(e, px, py, r) ==
    LET dx == e.x - px
        dy == e.y - py
    IN  IF e.health < 20 /\ r.panic
        THEN IF dx = 0 /\ dy = 0
             THEN [e EXCEPT !.state = "flee", !.vx = (EntitySpeed * 15) \div 10, !.vy = 0]
             ELSE [e EXCEPT !.state = "flee",
                            !.vx = TruncDiv(dx * ((EntitySpeed * 15) \div 10), Hypot(dx, dy)),
                            !.vy = TruncDiv(dy * ((EntitySpeed * 15) \div 10), Hypot(dx, dy))]
        ELSE e

(* Entity.update: the entity afterwards, and whether the call raised *)
entity_update(e, dt, px, py, r) ==
    LET p == Pursue(Wander(e, r), px, py)
        f == Panic(p.e, px, py, r)
    IN  IF p.raised
        THEN p
        ELSE [e |-> [f EXCEPT !.x = @ + f.vx * dt, !.y = @ + f.vy * dt], raised |-> FALSE]

---------------------------------------------------------------------------
(* Crafting recipes, main.py:344-361: requires is a dict, in its order *)

RecipeIds == {"wooden_spear", "campfire", "stone_axe", "wooden_shack"}

RecipeRequires(recipe_id) ==
    CASE recipe_id = "wooden_spear" -> << <<"wood", 3>>, <<"stone", 1>> >>
      [] recipe_id = "campfire" -> << <<"wood", 5>> >>
      [] recipe_id = "stone_axe" -> << <<"wood", 2>>, <<"stone", 3>> >>
      [] recipe_id = "wooden_shack" -> << <<"wood", 20>> >>

RecipeName(recipe_id) ==
    CASE recipe_id = "wooden_spear" -> "Wooden Spear"
      [] recipe_id = "campfire" -> "Campfire"
      [] recipe_id = "stone_axe" -> "Stone Axe"
      [] recipe_id = "wooden_shack" -> "Wooden Shack"

(* a refund that names the stack by its id *)
Verbatim(s) == s

(* str.capitalize() on the ids the recipes require *)
Capitalize(s) ==
    CASE s = "wood" -> "Wood"
      [] s = "stone" -> "Stone"
      [] s = "berries" -> "Berries"
      [] OTHER -> s

---------------------------------------------------------------------------
(* Game, main.py:367-611 *)

(* the tile under the player: int(player.x // TILE_SIZE) *)
PlayerTx(p) == p.x \div TILE_SIZE
PlayerTy(p) == p.y \div TILE_SIZE

(* Game.update_player.  keys is the set of movement keys held, shift the   *)
(* sprint key.  A diagonal step is speed*dt/sqrt(2), to the whole pixel.   *)
update_player(p, wd, dt, keys, shift) ==
    LET sprint == shift /\ p.stamina > Tenths(1)
        speed == IF sprint THEN (160 * 18) \div 10 ELSE 160
        s1 == IF sprint THEN p.stamina - dt * 100 ELSE p.stamina
        vx == (IF "d" \in keys THEN 1 ELSE 0) - (IF "a" \in keys THEN 1 ELSE 0)
        vy == (IF "s" \in keys THEN 1 ELSE 0) - (IF "w" \in keys THEN 1 ELSE 0)
        moving == vx # 0 \/ vy # 0
        step == IF vx # 0 /\ vy # 0 THEN (speed * dt * 7071) \div 10000 ELSE speed * dt
        x1 == IF moving THEN p.x + vx * step ELSE p.x
        y1 == IF moving THEN p.y + vy * step ELSE p.y
        s2 == IF moving THEN Max(0, s1 - dt * 70) ELSE s1
    IN  [p EXCEPT !.x = clamp(x1, 0, wd.w * TILE_SIZE - 1),
                  !.y = clamp(y1, 0, wd.h * TILE_SIZE - 1),
                  !.stamina = s2]

(* an entity loop in which only the first entity of the list can hurt *)
RECURSIVE EntityLoopFirstOnly(_, _, _, _, _, _)
EntityLoopFirstOnly(st, i, dt, px, py, rolls) ==
    IF i > Len(st.entities) \/ st.raised
    THEN st
    ELSE LET u == entity_update(st.entities[i], dt, px, py, rolls[i])
             dx == u.e.x - px
             dy == u.e.y - py
             hit == i = 1 /\ dx * dx + dy * dy < 20 * 20
             h == IF hit THEN st.health - 50 * dt ELSE st.health
         IN  IF u.raised
             THEN [st EXCEPT !.entities[i] = u.e, !.raised = TRUE]
             ELSE EntityLoopFirstOnly([st EXCEPT !.entities[i] = u.e,
                                                 !.health = h,
                                                 !.paused = IF hit /\ h <= 0 THEN TRUE ELSE @],
                                      i + 1, dt, px, py, rolls)

(* lines 497-509: the entity loop from entity i on.  st carries the list,  *)
(* the player's health, the paused flag and whether Entity.update raised.  *)
RECURSIVE EntityLoop(_, _, _, _, _, _)
EntityLoop(st, i, dt, px, py, rolls) ==
    IF i > Len(st.entities) \/ st.raised
    THEN st
    ELSE LET u == entity_update(st.entities[i], dt, px, py, rolls[i])
             dx == u.e.x - px
             dy == u.e.y - py
             hit == dx * dx + dy * dy < 20 * 20
             h == IF hit THEN st.health - 50 * dt ELSE st.health
         IN  IF u.raised
             THEN [st EXCEPT !.entities[i] = u.e, !.raised = TRUE]
             ELSE EntityLoop([st EXCEPT !.entities[i] = u.e,
                                        !.health = h,
                                        !.paused = IF hit /\ h <= 0 THEN TRUE ELSE @],
                             i + 1, dt, px, py, rolls)

(* lines 511-521: hunger / thirst, their penalties, stamina regeneration *)
Vitals(p, dt) ==
    LET hunger == p.hunger + dt * 5
        thirst == p.thirst + dt * 9
        h1 == IF hunger > Tenths(80) THEN p.health - dt * 5 ELSE p.health
        h2 == IF thirst > Tenths(90) THEN h1 - dt * 10 ELSE h1
    IN  [p EXCEPT !.hunger = hunger, !.thirst = thirst, !.health = h2,
                  !.stamina = IF p.stamina < Tenths(MAX_STAMINA)
                              THEN Min(Tenths(MAX_STAMINA), p.stamina + dt * 50)
                              ELSE p.stamina]

(* Game.update: an Entity.update that raises ends the call where it is *)
update(g, dt, keys, shift, rolls) ==
    LET t == (g.time_of_day + dt) % DAY_LENGTH
        p1 == update_player(g.player, g.world, dt, keys, shift)
        lp == EntityLoop([entities |-> g.entities, health |-> p1.health,
                          paused |-> g.paused, raised |-> FALSE],
                         1, dt, p1.x, p1.y, rolls)
        p2 == [p1 EXCEPT !.health = lp.health]
        p3 == IF lp.raised THEN p2 ELSE Vitals(p2, dt)
    IN  [time_of_day |-> t, player |-> p3, entities |-> lp.entities,
         paused |-> lp.paused, raised |-> lp.raised,
         camera |-> IF lp.raised THEN g.camera ELSE <<p3.x, p3.y>>]

(* the add of try_interact, chosen by the tile's resource AFTER the harvest *)
Gather(inv, resource, taken) ==
    CASE resource = RESOURCE_TREE -> InvAdd(inv, "wood", "Wood", taken).inv
      [] resource = RESOURCE_STONE -> InvAdd(inv, "stone", "Stone", taken).inv
      [] resource = RESOURCE_BUSH -> InvAdd(inv, "berries", "Berries", taken).inv
      [] OTHER -> inv

(* Game.try_interact *)
try_interact(wd, p) ==
    LET tx == PlayerTx(p)
        ty == PlayerTy(p)
    IN  IF ~in_bounds(wd, tx, ty)
        THEN [world |-> wd, player |-> p]
        ELSE LET tile == get_tile(wd, tx, ty)
             IN  IF tile.resource # None
                 THEN LET hv == harvest(wd, tx, ty, 1)
                      IN  [world |-> hv.world,
                           player |-> IF hv.ret > 0
                                      THEN [p EXCEPT !.inventory =
                                              Gather(@, get_tile(hv.world, tx, ty).resource, hv.ret)]
                                      ELSE p]
                 ELSE IF tile.built = "campfire"
                 THEN [world |-> wd,
                       player |-> [p EXCEPT !.stamina = Min(Tenths(MAX_STAMINA), @ + Tenths(20)),
                                            !.health = Min(Tenths(MAX_HEALTH), @ + Tenths(5))]]
                 ELSE [world |-> wd, player |-> p]

(* a check that looks for the ids only, not the amounts *)
HasAllIds(inv, req) == \A i \in 1..Len(req) : InvIndex(inv.items, req[i][1]) # 0

(* lines 560-562: every requirement is held *)
HasAll(inv, req) == \A i \in 1..Len(req) : InvHas(inv, req[i][1], req[i][2])

(* lines 564-565: remove the first n requirements *)
RECURSIVE RemoveAll(_, _, _)
RemoveAll(inv, req, n) ==
    IF n = 0 THEN inv
    ELSE InvRemove(RemoveAll(inv, req, n - 1), req[n][1], req[n][2]).inv

(* lines 574-575 / 583-584: the refund of the first n requirements *)
RECURSIVE Refund(_, _, _)
Refund(inv, req, n) ==
    IF n = 0 THEN inv
    ELSE InvAdd(Refund(inv, req, n - 1), req[n][1], Capitalize(req[n][1]), req[n][2]).inv

(* the structure a recipe places, "none" for an item recipe *)
StructureOf(recipe_id) ==
    CASE recipe_id = "campfire" -> "campfire"
      [] recipe_id = "wooden_shack" -> "shack"
      [] OTHER -> None

(* Game.craft *)
craft(wd, p, recipe_id) ==
    IF recipe_id \notin RecipeIds
    THEN [world |-> wd, player |-> p, ret |-> FALSE]
    ELSE LET req == RecipeRequires(recipe_id) IN
         IF ~HasAll(p.inventory, req)
         THEN [world |-> wd, player |-> p, ret |-> FALSE]
         ELSE LET inv1 == RemoveAll(p.inventory, req, Len(req)) IN
              IF StructureOf(recipe_id) # None
              THEN LET pl == place_structure(wd, PlayerTx(p), PlayerTy(p), StructureOf(recipe_id))
                   IN  IF ~pl.ret
                       THEN [world |-> wd,
                             player |-> [p EXCEPT !.inventory = Refund(inv1, req, Len(req))],
                             ret |-> FALSE]
                       ELSE [world |-> pl.world, player |-> [p EXCEPT !.inventory = inv1],
                             ret |-> TRUE]
              ELSE [world |-> wd,
                    player |-> [p EXCEPT !.inventory =
                                  InvAdd(inv1, recipe_id, RecipeName(recipe_id), 1).inv],
                    ret |-> TRUE]

(* Game.save: the JSON document written *)
save(g) ==
    [world |-> world_to_dict(g.world),
     player |-> player_to_dict(g.player),
     time_of_day |-> g.time_of_day,
     entities |-> [i \in 1..Len(g.entities) |->
                     [x |-> g.entities[i].x, y |-> g.entities[i].y,
                      health |-> g.entities[i].health]]]

(* d.get(k, default) *)
Get(d, k, default) == IF k \in DOMAIN d THEN d[k] ELSE default

(* a load that brings the entities back on the attack *)
LoadedEntitiesAttacking(lst) ==
    [i \in 1..Len(lst) |->
        [NewEntity(lst[i].x, lst[i].y) EXCEPT !.health = Get(lst[i], "health", 50),
                                              !.state = "attack",
                                              !.vx = (EntitySpeed * 12) \div 10]]

(* lines 609-611: the entity list of a document *)
LoadedEntities(lst) ==
    [i \in 1..Len(lst) |-> [NewEntity(lst[i].x, lst[i].y) EXCEPT !.health = Get(lst[i], "health", 50)]]

(* Game.load on a readable, parseable document: the assignments are made  *)
(* in the order world, player, time_of_day, entities, and an exception     *)
(* ends the call after the assignments already made                        *)
load(g, data) ==
    IF "world" \notin DOMAIN data \/ world_from_dict_raises(data.world)
    THEN [g EXCEPT !.raised = TRUE]
    ELSE LET g1 == [g EXCEPT !.world = world_from_dict(data.world)] IN
         IF "player" \notin DOMAIN data \/ player_from_dict_raises(data.player)
         THEN [g1 EXCEPT !.raised = TRUE]
         ELSE LET g2 == [g1 EXCEPT !.player = player_from_dict(data.player),
                                   !.time_of_day = Get(data, "time_of_day", 0)]
                  lst == Get(data, "entities", << >>)
              IN  IF \E i \in 1..Len(lst) : ~HasKeys(lst[i], {"x", "y"})
                  THEN [g2 EXCEPT !.raised = TRUE]
                  ELSE [g2 EXCEPT !.entities = LoadedEntities(lst)]

---------------------------------------------------------------------------
(* The state machine *)

(* the session as one record, for the operators above *)
G == [world |-> world, player |-> player, time_of_day |-> time_of_day,
      entities |-> entities, paused |-> paused, camera |-> camera, raised |-> FALSE]

ItemIds == {"wood", "stone", "berries"}

ItemName(id) ==
    CASE id = "wood" -> "Wood" [] id = "stone" -> "Stone" [] id = "berries" -> "Berries"

NoLedger == [added |-> [i \in ItemIds |-> 0], addedOk |-> [i \in ItemIds |-> 0],
             removedOk |-> [i \in ItemIds |-> 0]]

NumEntities == 1

(* last: the most recent call that returns a value, with its argument and *)
(* result; NoCall after a frame or an event that returns nothing          *)
NoCall == [op |-> "none", arg |-> << >>, ret |-> None]

(* random.randint(0, w*TILE_SIZE), random.randint(0, h*TILE_SIZE): the two *)
(* far corners and the centre, where the player is spawned                 *)
SpawnPoints(w, h) == { <<0, 0>>, <<(w * TILE_SIZE) \div 2, (h * TILE_SIZE) \div 2>>,
                       <<w * TILE_SIZE, h * TILE_SIZE>> }

(* lines 404-405: the starter items *)
StarterInventory(c) ==
    InvAdd(InvAdd(NewInventory(c), "wood", "Wood", 5).inv, "stone", "Stone", 3).inv

(* Game.__init__ with no save file present: World(w, h), the player at    *)
(* the centre carrying inv, entities at the points sp                      *)
GameInit(w, h, inv, sp, frames) ==
    /\ world = NewWorld(w, h)
    /\ player = NewPlayer((w * TILE_SIZE) \div 2, (h * TILE_SIZE) \div 2, inv)
    /\ camera = <<(w * TILE_SIZE) \div 2, (h * TILE_SIZE) \div 2>>
    /\ entities = [i \in 1..Len(sp) |-> NewEntity(sp[i][1], sp[i][2])]
    /\ paused = FALSE
    /\ time_of_day = 0
    /\ build_mode = FALSE
    /\ crashed = FALSE
    /\ file = << >>
    /\ frames_left = frames
    /\ ledger = NoLedger
    /\ last = NoCall
    /\ death_paused = FALSE

GameDims == <<1, 1>>

Capacities == {SmallCapacity, DefaultCapacity}

Init ==
    \E sp \in [1..NumEntities -> SpawnPoints(GameDims[1], GameDims[2])] :
        GameInit(GameDims[1], GameDims[2], StarterInventory(DefaultCapacity), sp, MaxFrames)

(* frame lengths: a one-second frame and a 40-second stall *)
DtSet == {1, 40}

KeySets == { {}, {"a"}, {"d", "s"} }

RollChoices == { f \in [1..Len(entities) -> [roam : 0..4, stop : BOOLEAN, panic : BOOLEAN]] :
                   \A i \in 1..Len(entities) : f[i] \in RollsFor(entities[i]) }

(* Game.run, lines 419-420: one frame of the loop while not paused *)
Tick ==
    /\ ~crashed /\ ~paused /\ frames_left > 0
    /\ \E dt \in DtSet, keys \in KeySets, shift \in BOOLEAN, rolls \in RollChoices :
         \E u \in {update(G, dt, keys, shift, rolls)} :
         /\ time_of_day' = u.time_of_day
         /\ player' = u.player
         /\ entities' = u.entities
         /\ paused' = u.paused
         /\ death_paused' = (death_paused \/ (~paused /\ u.paused))
         /\ camera' = u.camera
         /\ crashed' = u.raised
         /\ last' = NoCall
    /\ frames_left' = frames_left - 1
    /\ UNCHANGED <<world, build_mode, file, ledger>>

(* K_ESCAPE, line 432 *)
TogglePause ==
    /\ ~crashed
    /\ paused' = ~paused
    /\ last' = NoCall
    /\ UNCHANGED <<world, player, entities, time_of_day, build_mode, camera, crashed,
                   file, frames_left, ledger, death_paused>>

(* K_b, line 434 *)
ToggleBuild ==
    /\ ~crashed
    /\ build_mode' = ~build_mode
    /\ last' = NoCall
    /\ UNCHANGED <<world, player, entities, time_of_day, paused, camera, crashed,
                   file, frames_left, ledger, death_paused>>

(* K_e, line 436 *)
Interact ==
    /\ ~crashed
    /\ LET r == try_interact(world, player) IN
         /\ world' = r.world
         /\ player' = r.player
    /\ last' = NoCall
    /\ UNCHANGED <<entities, time_of_day, paused, build_mode, camera, crashed,
                   file, frames_left, ledger, death_paused>>

(* K_F9, line 443 *)
HealKey ==
    /\ ~crashed
    /\ player' = [player EXCEPT !.health = Min(Tenths(MAX_HEALTH), @ + Tenths(20))]
    /\ last' = NoCall
    /\ UNCHANGED <<world, entities, time_of_day, paused, build_mode, camera, crashed,
                   file, frames_left, ledger, death_paused>>

(* mouse positions: the screen centre, one tile to its left, the corner *)
Clicks == { <<SCREEN_WIDTH \div 2, SCREEN_HEIGHT \div 2>>,
            <<SCREEN_WIDTH \div 2 - TILE_SIZE, SCREEN_HEIGHT \div 2>>,
            <<0, 0>> }

(* MOUSEBUTTONDOWN, button 1, lines 444-451; selected_structure is always 'campfire' *)
BuildClick ==
    /\ ~crashed /\ build_mode
    /\ \E pos \in Clicks :
         LET t == screen_to_world(pos[1], pos[2], camera[1], camera[2])
             r == place_structure(world, t[1], t[2], "campfire")
         IN  /\ world' = r.world
             /\ last' = [op |-> "click", arg |-> t, ret |-> r.ret]
    /\ UNCHANGED <<player, entities, time_of_day, paused, build_mode, camera, crashed,
                   file, frames_left, ledger, death_paused>>

(* Game.craft(recipe_id); "raft" is an id RECIPES does not have *)
CraftCall ==
    /\ ~crashed
    /\ \E recipe_id \in RecipeIds \cup {"raft"} :
         LET r == craft(world, player, recipe_id) IN
         /\ world' = r.world
         /\ player' = r.player
         /\ last' = [op |-> "craft", arg |-> recipe_id, ret |-> r.ret]
    /\ UNCHANGED <<entities, time_of_day, paused, build_mode, camera, crashed,
                   file, frames_left, ledger, death_paused>>

(* K_F5, line 440: Game.save(SAVE_FILE) *)
SaveKey ==
    /\ ~crashed
    /\ file' = << save(G) >>
    /\ last' = [op |-> "save", arg |-> << >>, ret |-> None]
    /\ UNCHANGED <<world, player, entities, time_of_day, paused, build_mode, camera,
                   crashed, frames_left, ledger, death_paused>>

(* d without the key k *)
Drop(d, k) == [f \in DOMAIN d \ {k} |-> d[f]]

(* What Game.load may find where Game.save wrote: the document itself, or *)
(* one that lost a key (a truncated or hand-edited file).  "missing" is    *)
(* no file at all and "garbage" a file json.load cannot parse.             *)
DamageKinds == {"intact", "missing", "garbage", "no_world", "no_tile_kind", "no_player",
                "no_health", "no_item_amount", "no_time", "no_entities",
                "no_entity_x", "no_entity_health"}

Damaged(data, dmg) ==
    CASE dmg = "no_world" -> Drop(data, "world")
      [] dmg = "no_tile_kind" -> [data EXCEPT !.world.tiles[1][1] = Drop(@, "k")]
      [] dmg = "no_player" -> Drop(data, "player")
      [] dmg = "no_health" -> [data EXCEPT !.player = Drop(@, "health")]
      [] dmg = "no_item_amount" /\ Len(data.player.inventory) > 0 ->
             [data EXCEPT !.player.inventory[1] = Drop(@, "amount")]
      [] dmg = "no_time" -> Drop(data, "time_of_day")
      [] dmg = "no_entities" -> Drop(data, "entities")
      [] dmg = "no_entity_x" /\ Len(data.entities) > 0 ->
             [data EXCEPT !.entities[1] = Drop(@, "x")]
      [] dmg = "no_entity_health" /\ Len(data.entities) > 0 ->
             [data EXCEPT !.entities[1] = Drop(@, "health")]
      [] OTHER -> data

(* lines 604-605: open() and json.load() raise before anything is assigned *)
Unreadable(dmg) == file = << >> \/ dmg \in {"missing", "garbage"}

(* Game.load(SAVE_FILE) *)
LoadCall ==
    /\ ~crashed
    /\ \E dmg \in DamageKinds :
         LET r == IF Unreadable(dmg) THEN [G EXCEPT !.raised = TRUE]
                  ELSE load(G, Damaged(file[1], dmg))
         IN  /\ world' = r.world
             /\ player' = r.player
             /\ time_of_day' = r.time_of_day
             /\ entities' = r.entities
             /\ last' = [op |-> "load",
                         arg |-> IF dmg = "intact" /\ file # << >> THEN "intact" ELSE "damaged",
                         ret |-> IF r.raised THEN "raised" ELSE "ok"]
    /\ UNCHANGED <<paused, build_mode, camera, crashed, file, frames_left, ledger, death_paused>>

(* ---- direct calls of the World methods ---- *)

HarvestProbes == { <<0, 0>>, <<0, 1>>, <<1, 2>>, <<1, 3>>, <<-1, 0>>, <<2, 0>>, <<0, -1>>, <<0, 4>> }

StructureProbes == { <<0, 1>>, <<1, 2>>, <<2, 0>>, <<0, -1>> }

HarvestCall ==
    /\ ~crashed
    /\ \E t \in HarvestProbes, amount \in 1..MaxAmount :
         LET r == harvest(world, t[1], t[2], amount) IN
         /\ world' = r.world
         /\ last' = [op |-> "harvest", arg |-> <<t[1], t[2], amount>>, ret |-> r.ret]
    /\ UNCHANGED <<player, entities, time_of_day, paused, build_mode, camera, crashed,
                   file, frames_left, ledger, death_paused>>

PlaceCall ==
    /\ ~crashed
    /\ \E t \in StructureProbes, name \in {"campfire", "shack"} :
         LET r == place_structure(world, t[1], t[2], name) IN
         /\ world' = r.world
         /\ last' = [op |-> "place", arg |-> <<t[1], t[2], name>>, ret |-> r.ret]
    /\ UNCHANGED <<player, entities, time_of_day, paused, build_mode, camera, crashed,
                   file, frames_left, ledger, death_paused>>

UnbuildCall ==
    /\ ~crashed
    /\ \E t \in StructureProbes :
         LET r == remove_structure(world, t[1], t[2]) IN
         /\ world' = r.world
         /\ last' = [op |-> "unbuild", arg |-> <<t[1], t[2]>>, ret |-> r.ret]
    /\ UNCHANGED <<player, entities, time_of_day, paused, build_mode, camera, crashed,
                   file, frames_left, ledger, death_paused>>

(* ---- direct calls of the Inventory methods; ledger keeps, per id, the  *)
(* amounts of all adds, of the adds that returned True and of the removes *)
(* that returned True                                                      *)

AddCall ==
    /\ ~crashed
    /\ \E id \in ItemIds, amount \in 1..MaxAmount :
         LET r == InvAdd(player.inventory, id, ItemName(id), amount) IN
         /\ ledger.added[id] + amount <= MaxStock
         /\ player' = [player EXCEPT !.inventory = r.inv]
         /\ ledger' = [ledger EXCEPT !.added[id] = @ + amount,
                                     !.addedOk[id] = IF r.ret THEN @ + amount ELSE @]
         /\ last' = [op |-> "add", arg |-> <<id, amount>>, ret |-> r.ret]
    /\ UNCHANGED <<world, entities, time_of_day, paused, build_mode, camera, crashed,
                   file, frames_left, death_paused>>

RemoveCall ==
    /\ ~crashed
    /\ \E id \in ItemIds, amount \in 1..MaxAmount :
         LET r == InvRemove(player.inventory, id, amount) IN
         /\ player' = [player EXCEPT !.inventory = r.inv]
         /\ ledger' = [ledger EXCEPT !.removedOk[id] = IF r.ret THEN @ + amount ELSE @]
         /\ last' = [op |-> "remove", arg |-> <<id, amount>>, ret |-> r.ret]
    /\ UNCHANGED <<world, entities, time_of_day, paused, build_mode, camera, crashed,
                   file, frames_left, death_paused>>

(* ---- direct calls of Game.update_player and Game.update, with the     *)
(* keyboard state they read ----                                           *)

UpdatePlayerCall ==
    /\ ~crashed /\ frames_left > 0
    /\ \E dt \in DtSet, keys \in KeySets, shift \in BOOLEAN :
         /\ player' = update_player(player, world, dt, keys, shift)
         /\ last' = [op |-> "update_player", arg |-> <<dt, keys, shift>>, ret |-> None]
    /\ frames_left' = frames_left - 1
    /\ UNCHANGED <<world, entities, time_of_day, paused, build_mode, camera, crashed,
                   file, ledger, death_paused>>

UpdateCall ==
    /\ ~crashed /\ frames_left > 0
    /\ \E dt \in DtSet, keys \in KeySets, shift \in BOOLEAN, rolls \in RollChoices :
         \E u \in {update(G, dt, keys, shift, rolls)} :
         /\ time_of_day' = u.time_of_day
         /\ player' = u.player
         /\ entities' = u.entities
         /\ paused' = u.paused
         /\ death_paused' = (death_paused \/ (~paused /\ u.paused))
         /\ camera' = u.camera
         /\ crashed' = u.raised
         /\ last' = [op |-> "update", arg |-> <<dt, keys, shift>>, ret |-> u.raised]
    /\ frames_left' = frames_left - 1
    /\ UNCHANGED <<world, build_mode, file, ledger>>

(* ---- direct calls of Entity.update ---- *)

EntityUpdateCall ==
    /\ ~crashed /\ frames_left > 0
    /\ \E i \in 1..Len(entities), dt \in DtSet :
         \E r \in RollsFor(entities[i]) :
           \E u \in {entity_update(entities[i], dt, player.x, player.y, r)} :
             /\ entities' = [entities EXCEPT ![i] = u.e]
             /\ crashed' = u.raised
             /\ last' = [op |-> "entity_update", arg |-> <<i, dt, r.panic>>, ret |-> u.raised]
    /\ frames_left' = frames_left - 1
    /\ UNCHANGED <<world, player, time_of_day, paused, build_mode, camera, file, ledger, death_paused>>

(* ---- the same calls on a session in progress, where harvests and      *)
(* crafts add and remove as well: the stock held bounds the adds           *)

(* the ids added: wood is only spent, so that the crafts come to an end *)
AddedIds == {"stone", "berries"}

AddStock ==
    /\ ~crashed
    /\ \E id \in AddedIds, amount \in 1..MaxAmount :
         LET r == InvAdd(player.inventory, id, ItemName(id), amount) IN
         /\ Stock(player.inventory, id) + amount <= MaxStock
         /\ player' = [player EXCEPT !.inventory = r.inv]
         /\ last' = [op |-> "add", arg |-> <<id, amount>>, ret |-> r.ret]
    /\ UNCHANGED <<world, entities, time_of_day, paused, build_mode, camera, crashed,
                   file, frames_left, ledger, death_paused>>

RemoveStock ==
    /\ ~crashed
    /\ \E id \in ItemIds, amount \in 1..MaxAmount :
         LET r == InvRemove(player.inventory, id, amount) IN
         /\ player' = [player EXCEPT !.inventory = r.inv]
         /\ last' = [op |-> "remove", arg |-> <<id, amount>>, ret |-> r.ret]
    /\ UNCHANGED <<world, entities, time_of_day, paused, build_mode, camera, crashed,
                   file, frames_left, ledger, death_paused>>

---------------------------------------------------------------------------
(* Specifications *)

(* the running game: frames and the pause, interact and heal keys *)
Next ==
    \/ Tick
    \/ TogglePause
    \/ Interact
    \/ HealKey

Spec == Init /\ [][Next]_vars

(* the World methods, on World(2, 4) *)
WorldDims == <<2, 4>>

InitWorld == GameInit(WorldDims[1], WorldDims[2], StarterInventory(DefaultCapacity), << >>, 0)

NextWorld ==
    \/ HarvestCall
    \/ PlaceCall
    \/ UnbuildCall

SpecWorld == InitWorld /\ [][NextWorld]_vars

(* every way a structure is placed or removed: the World methods, the     *)
(* build-mode click and Game.craft, on World(2, 4)                         *)
NextBuild ==
    \/ PlaceCall
    \/ UnbuildCall
    \/ ToggleBuild
    \/ BuildClick
    \/ CraftCall

SpecBuild == InitWorld /\ [][NextBuild]_vars

(* Entity.update on entities placed around the player, who stands at      *)
(* (16, 16): on the player, inside the detection radius, at 149.4 and at   *)
(* exactly 150 from the player, and far away; healthy or, as a load can    *)
(* make them, hurt                                                         *)
EntityPoints == { <<16, 16>>, <<26, 16>>, <<105, 136>>, <<106, 136>>, <<16, 400>> }

EntityHealths == {50, 10}

EntityFrames == 3

InitEntity ==
    /\ world = NewWorld(GameDims[1], GameDims[2])
    /\ player = NewPlayer(16, 16, StarterInventory(DefaultCapacity))
    /\ camera = <<16, 16>>
    /\ \E sp \in [1..NumEntities -> EntityPoints], hl \in [1..NumEntities -> EntityHealths] :
         entities = [i \in 1..NumEntities |->
                       [NewEntity(sp[i][1], sp[i][2]) EXCEPT !.health = hl[i]]]
    /\ paused = FALSE
    /\ time_of_day = 0
    /\ build_mode = FALSE
    /\ crashed = FALSE
    /\ file = << >>
    /\ frames_left = EntityFrames
    /\ ledger = NoLedger
    /\ last = NoCall
    /\ death_paused = FALSE

NextEntity ==
    \/ EntityUpdateCall

SpecEntity == InitEntity /\ [][NextEntity]_vars

(* Entity.update between saves and loads of the session, so that an       *)
(* entity is met fresh, after updates and after a load                     *)
NextIdle ==
    \/ EntityUpdateCall
    \/ SaveKey
    \/ LoadCall

SpecIdle == InitEntity /\ [][NextIdle]_vars

(* Game.update_player and Game.update on World(8, 1), 256 pixels wide, so *)
(* that a step of one second clamps at the border or not                   *)
TickDims == <<8, 1>>

TickFrames == 3

InitTick ==
    \E sp \in [1..NumEntities -> SpawnPoints(TickDims[1], TickDims[2])] :
        GameInit(TickDims[1], TickDims[2], StarterInventory(DefaultCapacity), sp, TickFrames)

NextTick ==
    \/ UpdatePlayerCall
    \/ UpdateCall

SpecTick == InitTick /\ [][NextTick]_vars

(* Game.update with several entities that reach the player, who starts   *)
(* at (16, 16): an attack of one second from (64, 16) ends on the player,  *)
(* one from (81, 16) ends 17 pixels from the player and then 15 pixels     *)
(* from the player who has stepped to the left border, one from           *)
(* (120, 16) ends 56 pixels away                                           *)
ContactEntities == 2

ContactFrames == 2

ContactPoints == { <<64, 16>>, <<81, 16>>, <<120, 16>> }

InitContact ==
    \E sp \in [1..ContactEntities -> ContactPoints] :
        GameInit(GameDims[1], GameDims[2], StarterInventory(DefaultCapacity), sp, ContactFrames)

NextContact ==
    \/ UpdateCall

SpecContact == InitContact /\ [][NextContact]_vars

(* Game.__init__ that finds a save (lines 408-410) of World(1, 1) whose    *)
(* player stands at the centre with full health or with 10 points left and *)
(* whose entities stand at DeathPoints: a second of attack from (81, 16)   *)
(* ends 17 pixels from the player, one from (120, 16) ends 56 pixels away  *)
DeathFrames == 3

DeathPoints == { <<81, 16>>, <<120, 16>> }

DeathHealths == { Tenths(MAX_HEALTH), Tenths(10) }

InitDeath ==
    /\ world = NewWorld(GameDims[1], GameDims[2])
    /\ \E h \in DeathHealths :
         player = [NewPlayer(16, 16, StarterInventory(DefaultCapacity)) EXCEPT !.health = h]
    /\ camera = <<16, 16>>
    /\ \E sp \in [1..ContactEntities -> DeathPoints] :
         entities = [i \in 1..ContactEntities |-> NewEntity(sp[i][1], sp[i][2])]
    /\ paused = FALSE
    /\ time_of_day = 0
    /\ build_mode = FALSE
    /\ crashed = FALSE
    /\ file = << >>
    /\ frames_left = DeathFrames
    /\ ledger = NoLedger
    /\ last = NoCall
    /\ death_paused = FALSE

NextDeath ==
    \/ Tick
    \/ TogglePause
    \/ HealKey

SpecDeath == InitDeath /\ [][NextDeath]_vars

(* the Inventory methods, on an empty Inventory(capacity=c) *)
InitInv ==
    \E c \in 1..SmallCapacity :
        GameInit(GameDims[1], GameDims[2], NewInventory(c), << >>, 0)

NextInv ==
    \/ AddCall
    \/ RemoveCall

SpecInv == InitInv /\ [][NextInv]_vars

(* Game.craft, with the keys that change the tile under the player, on a *)
(* session in progress: World(2, 1), the player on the stone tile, holding *)
(* wood and stone in an inventory of capacity c                            *)
CraftDims == <<2, 1>>

WoodStocks == {0, 2, 5, 20, 25}

StoneStocks == {0, 1, 3}

Stocked(c, wood, stone) ==
    LET a == IF wood > 0 THEN InvAdd(NewInventory(c), "wood", "Wood", wood).inv
             ELSE NewInventory(c)
    IN  IF stone > 0 THEN InvAdd(a, "stone", "Stone", stone).inv ELSE a

InitCraft ==
    \E c \in Capacities, wood \in WoodStocks, stone \in StoneStocks :
        GameInit(CraftDims[1], CraftDims[2], Stocked(c, wood, stone),
                 [i \in 1..NumEntities |-> <<0, 0>>], 0)

NextCraft ==
    \/ CraftCall
    \/ Interact
    \/ ToggleBuild
    \/ BuildClick

SpecCraft == InitCraft /\ [][NextCraft]_vars

(* the Inventory methods together with harvesting and crafting, on the    *)
(* bush tile of World(1, 1), in a small inventory holding wood for two    *)
(* campfires and one stone                                                 *)
InitStock == GameInit(GameDims[1], GameDims[2], Stocked(SmallCapacity, 10, 1), << >>, 0)

NextStock ==
    \/ AddStock
    \/ RemoveStock
    \/ CraftCall
    \/ Interact

SpecStock == InitStock /\ [][NextStock]_vars

(* saving and loading around a frame and the crafts the starter items allow *)
InitPersist ==
    \E sp \in [1..NumEntities -> SpawnPoints(GameDims[1], GameDims[2])] :
        GameInit(GameDims[1], GameDims[2], StarterInventory(DefaultCapacity), sp, PersistFrames)

NextPersist ==
    \/ SaveKey
    \/ LoadCall
    \/ Tick
    \/ CraftCall

SpecPersist == InitPersist /\ [][NextPersist]_vars

---------------------------------------------------------------------------
(* Properties *)

(* the tile at (tx, ty) of a world, for the properties *)
TileAt(wd, tx, ty) == wd.tiles[tx + 1][ty + 1]

Inside(wd, tx, ty) == tx >= 0 /\ tx < wd.w /\ ty >= 0 /\ ty < wd.h

(* C8: World.harvest(x, y, amount), amount >= 1, returns                   *)
(* taken = min(amount, resource_amount before) and leaves                  *)
(* resource_amount = before - taken; out of bounds or with no resource it  *)
(* returns 0 and changes nothing; at 0 the resource becomes none, a Forest *)
(* or Rock tile becomes Grass and any other kind stays; a tile that is not *)
(* depleted keeps resource and kind; built and the other tiles never change *)
C8_HarvestContract ==
    [][last'.op = "harvest" =>
        LET tx == last'.arg[1]
            ty == last'.arg[2]
            amount == last'.arg[3]
        IN  IF ~Inside(world, tx, ty) \/ TileAt(world, tx, ty).resource = None
            THEN last'.ret = 0 /\ world' = world
            ELSE LET before == TileAt(world, tx, ty)
                     after == TileAt(world', tx, ty)
                 IN  /\ last'.ret = (IF amount < before.resource_amount
                                     THEN amount ELSE before.resource_amount)
                     /\ after.resource_amount = before.resource_amount - last'.ret
                     /\ after.built = before.built
                     /\ after.resource_amount = 0 =>
                          /\ after.resource = None
                          /\ after.kind = IF before.kind \in {TILE_FOREST, TILE_ROCK}
                                          THEN TILE_GRASS ELSE before.kind
                     /\ after.resource_amount > 0 =>
                          /\ after.resource = before.resource
                          /\ after.kind = before.kind
                     /\ \A x \in 0..(world.w - 1), y \in 0..(world.h - 1) :
                          <<x, y>> # <<tx, ty>> => TileAt(world', x, y) = TileAt(world, x, y)
    ]_vars

(* C8 witness: a harvest of 2 took the last unit of the tree at (1, 3),    *)
(* returned 1, and the Forest tile is now Grass with no resource           *)
C8_Witness ==
    /\ last.op = "harvest" /\ last.arg = <<1, 3, 2>> /\ last.ret = 1
    /\ TileAt(world, 1, 3) = Tile(TILE_GRASS, None, 0, None)

(* C9: in every state reachable from a generated world by harvest          *)
(* (amount >= 1), place_structure and remove_structure, every tile has     *)
(* resource_amount > 0 if and only if its resource is set                  *)
C9_AmountIffResource ==
    \A x \in 0..(world.w - 1), y \in 0..(world.h - 1) :
        (TileAt(world, x, y).resource_amount > 0) <=> (TileAt(world, x, y).resource # None)

(* C9 witness: the stone of (0, 1) is harvested out and a structure on it  *)
(* was just removed                                                        *)
C9_Witness ==
    /\ last.op = "unbuild" /\ last.arg = <<0, 1>> /\ last.ret = TRUE
    /\ TileAt(world, 0, 1).resource = None
    /\ TileAt(world, 0, 1).resource_amount = 0
    /\ TileAt(world, 1, 3).resource_amount > 0

(* C10 as stated: the stock of every id is the sum of ALL amounts added    *)
(* minus the amounts of the removes that returned True                     *)
C10_StockIsAddsMinusRemoves ==
    \A id \in ItemIds :
        Stock(player.inventory, id) = ledger.added[id] - ledger.removedOk[id]

(* C10 amended: the stock of every id is the sum of the amounts of the     *)
(* adds that returned True minus the amounts of the removes that returned  *)
(* True, and is never negative; a remove whose amount exceeds the stock,   *)
(* or whose id is absent, returns False and leaves the inventory unchanged *)
C10_StockIsAcceptedAddsMinusRemoves ==
    /\ [](\A id \in ItemIds :
            /\ Stock(player.inventory, id) = ledger.addedOk[id] - ledger.removedOk[id]
            /\ Stock(player.inventory, id) >= 0
            /\ \A i \in 1..Len(player.inventory.items) : player.inventory.items[i].amount >= 0)
    /\ [][last'.op = "remove" =>
            LET id == last'.arg[1]
                amount == last'.arg[2]
                held == { i \in 1..Len(player.inventory.items) : player.inventory.items[i].id = id }
            IN  IF held = {} \/ \E i \in held : player.inventory.items[i].amount < amount
                THEN last'.ret = FALSE /\ player'.inventory = player.inventory
                ELSE last'.ret = TRUE
       ]_vars

(* C10 witness: a remove of 2 wood failed on a stock of 1 that earlier     *)
(* adds and a successful remove had left                                   *)
C10_Witness ==
    /\ last.op = "remove" /\ last.arg = <<"wood", 2>> /\ last.ret = FALSE
    /\ Stock(player.inventory, "wood") = 1
    /\ ledger.removedOk["wood"] > 0

(* the amount an inventory holds of an id, 0 when it has no such stack *)
Amount(inv, id) ==
    LET S == { i \in 1..Len(inv.items) : inv.items[i].id = id }
    IN  IF S = {} THEN 0 ELSE inv.items[CHOOSE i \in S : TRUE].amount

(* the stacks of an inventory, whatever their order *)
Stacks(inv) == { inv.items[i] : i \in 1..Len(inv.items) }

(* some requirement of the recipe is not held *)
Lacking(inv, recipe_id) ==
    \E i \in 1..Len(RecipeRequires(recipe_id)) :
        Amount(inv, RecipeRequires(recipe_id)[i][1]) < RecipeRequires(recipe_id)[i][2]

(* the tile under the player holds a structure *)
Occupied == TileAt(world, player.x \div TILE_SIZE, player.y \div TILE_SIZE).built # None

(* C1: a Game.craft(recipe_id) of an unknown recipe, or of a recipe with a *)
(* requirement absent or short, returns False and changes no inventory     *)
(* stack and no tile                                                       *)
C1_FailedCraftChangesNothing ==
    [][(last'.op = "craft" /\ (last'.arg \notin RecipeIds \/ Lacking(player.inventory, last'.arg)))
         => (last'.ret = FALSE /\ player' = player /\ world' = world)]_vars

(* C1 witness: wooden_spear was refused with 2 wood (3 needed) while the   *)
(* stone it needs is held                                                  *)
C1_Witness ==
    /\ last.op = "craft" /\ last.arg = "wooden_spear" /\ last.ret = FALSE
    /\ Amount(player.inventory, "wood") = 2
    /\ Amount(player.inventory, "stone") >= 1

(* C2: a craft of campfire or wooden_shack with the materials held, on a   *)
(* tile that already holds a structure, returns False, leaves every tile   *)
(* as it was and leaves the inventory with the same stacks (id, name,      *)
(* amount), for every inventory within its capacity                        *)
C2_RefundOnOccupiedTile ==
    [][(/\ last'.op = "craft"
        /\ last'.arg \in {"campfire", "wooden_shack"}
        /\ ~Lacking(player.inventory, last'.arg)
        /\ Occupied
        /\ Len(player.inventory.items) <= player.inventory.capacity)
         => (/\ last'.ret = FALSE
             /\ world' = world
             /\ Stacks(player'.inventory) = Stacks(player.inventory)
             /\ Len(player'.inventory.items) = Len(player.inventory.items))]_vars

(* C2 witness: wooden_shack was refused on an occupied tile with exactly   *)
(* the 20 wood it needs: the whole stack was consumed and refunded, and    *)
(* now sits after the stone in the dict                                    *)
C2_Witness ==
    /\ last.op = "craft" /\ last.arg = "wooden_shack" /\ last.ret = FALSE
    /\ Occupied
    /\ Amount(player.inventory, "wood") = 20
    /\ Len(player.inventory.items) = 2
    /\ player.inventory.items[2] = Item("wood", "Wood", 20)

(* C3 as stated: whenever craft returns True for wooden_spear or stone_axe *)
(* the inventory holds exactly one more unit of the recipe's item and each *)
(* required item has decreased by exactly its required count               *)
C3_ItemGranted ==
    [][(last'.op = "craft" /\ last'.arg \in {"wooden_spear", "stone_axe"} /\ last'.ret = TRUE)
         => (/\ Amount(player'.inventory, last'.arg) = Amount(player.inventory, last'.arg) + 1
             /\ \A i \in 1..Len(RecipeRequires(last'.arg)) :
                  Amount(player'.inventory, RecipeRequires(last'.arg)[i][1])
                    = Amount(player.inventory, RecipeRequires(last'.arg)[i][1])
                        - RecipeRequires(last'.arg)[i][2])]_vars

(* C4 as stated: a Game.load that raises leaves world, player, time_of_day *)
(* and entities as they were before the call                               *)
C4_FailedLoadLeavesSession ==
    [][(last'.op = "load" /\ last'.ret = "raised")
         => (/\ world' = world
             /\ player' = player
             /\ time_of_day' = time_of_day
             /\ entities' = entities)]_vars

(* C5 as stated: while the game runs, health, hunger, thirst and stamina   *)
(* are each within [0, max]                                                *)
C5_VitalsWithinBounds ==
    ~crashed =>
        /\ player.health >= 0 /\ player.health <= Tenths(MAX_HEALTH)
        /\ player.hunger >= 0 /\ player.hunger <= Tenths(MAX_HUNGER)
        /\ player.thirst >= 0 /\ player.thirst <= Tenths(MAX_THIRST)
        /\ player.stamina >= 0 /\ player.stamina <= Tenths(MAX_STAMINA)

(* C6 as stated: at the end of every Game.update that returns, health <= 0 *)
(* implies paused                                                          *)
C6_DeathPauses ==
    [][(frames_left' = frames_left - 1 /\ ~crashed')
         => (player'.health <= 0 => paused')]_vars

(* the fields of the player that a snapshot carries *)
Saved(p) == [x |-> p.x, y |-> p.y, health |-> p.health, hunger |-> p.hunger,
             thirst |-> p.thirst, stamina |-> p.stamina, equipped |-> p.equipped,
             stacks |-> p.inventory.items]

(* the fields of the entities that a snapshot carries *)
SavedEntities(es) == [i \in 1..Len(es) |-> [x |-> es[i].x, y |-> es[i].y, health |-> es[i].health]]

(* C7: a load of the file that the save just before it wrote returns       *)
(* normally with the same world (dimensions and every tile's kind,         *)
(* resource, amount and built), the same player position, vitals, equipped *)
(* id and inventory stacks in the same order, the same time_of_day and the *)
(* same entity positions and healths in the same order                     *)
C7_SaveLoadRoundTrip ==
    [][(last.op = "save" /\ last'.op = "load" /\ last'.arg = "intact")
         => (/\ last'.ret = "ok"
             /\ world' = world
             /\ Saved(player') = Saved(player)
             /\ time_of_day' = time_of_day
             /\ SavedEntities(entities') = SavedEntities(entities))]_vars

(* C7 witness: a session that ran a frame and spent its wood on a campfire *)
(* was loaded back from the file it had just saved                         *)
C7_Witness ==
    /\ last.op = "load" /\ last.arg = "intact" /\ last.ret = "ok"
    /\ file = << save(G) >>
    /\ time_of_day # 0
    /\ Amount(player.inventory, "wood") = 0
    /\ TileAt(world, 0, 0).built = "campfire"

(* C11: through add, remove, harvesting and crafting every stack in the    *)
(* inventory has amount >= 1, and a remove of the whole stock of an id     *)
(* deletes its stack, after which has(id, 1) is False                      *)
C11_StacksArePositive ==
    /\ [](\A i \in 1..Len(player.inventory.items) : player.inventory.items[i].amount >= 1)
    /\ [][(/\ last'.op = "remove" /\ last'.ret = TRUE
            /\ Amount(player.inventory, last'.arg[1]) = last'.arg[2])
             => (/\ \A i \in 1..Len(player'.inventory.items) :
                      player'.inventory.items[i].id # last'.arg[1]
                 /\ ~InvHas(player'.inventory, last'.arg[1], 1))]_vars

(* C11 witness: a remove took the last 2 units of wood while another      *)
(* stack is held                                                           *)
C11_Witness ==
    /\ last.op = "remove" /\ last.arg = <<"wood", 2>> /\ last.ret = TRUE
    /\ InvIndex(player.inventory.items, "wood") = 0
    /\ Len(player.inventory.items) >= 1

(* C12: an add of an id that is not held, made when the number of stacks   *)
(* has reached the capacity, returns False and leaves the inventory as it  *)
(* was; an add of an id that is held returns True and increments that      *)
(* stack only, whatever the number of stacks; any other add appends one    *)
(* stack; from an empty inventory the number of stacks never exceeds the   *)
(* capacity                                                                *)
C12_CapacityBoundsStacks ==
    /\ [](Len(player.inventory.items) <= player.inventory.capacity)
    /\ [][last'.op = "add" =>
            LET id == last'.arg[1]
                amount == last'.arg[2]
                inv == player.inventory
                held == { i \in 1..Len(inv.items) : inv.items[i].id = id }
            IN  IF held # {}
                THEN /\ last'.ret = TRUE
                     /\ \A i \in held :
                          player'.inventory = [inv EXCEPT !.items[i].amount = @ + amount]
                ELSE IF Len(inv.items) >= inv.capacity
                THEN last'.ret = FALSE /\ player'.inventory = inv
                ELSE /\ last'.ret = TRUE
                     /\ player'.inventory.items = Append(inv.items, Item(id, ItemName(id), amount))
                     /\ player'.inventory.capacity = inv.capacity
       ]_vars

(* C12 witness: an add of stone was refused by an inventory whose two      *)
(* stacks fill its capacity, one of them restocked to 3 before             *)
C12_Witness ==
    /\ last.op = "add" /\ last.arg[1] = "stone" /\ last.ret = FALSE
    /\ player.inventory.capacity = SmallCapacity
    /\ Len(player.inventory.items) = SmallCapacity
    /\ Amount(player.inventory, "wood") = MaxStock

(* C13: place_structure(x, y, name) returns False and changes nothing when *)
(* (x, y) is out of bounds or the tile holds a structure, and otherwise    *)
(* sets built to name and returns True; remove_structure returns False and *)
(* changes nothing when out of bounds or no structure is there, and        *)
(* otherwise clears built; through place and remove calls, build-mode      *)
(* clicks and crafts a tile's built changes only from none to a name or    *)
(* from a name to none                                                     *)
C13_StructuresNeverOverwritten ==
    [][/\ last'.op = "place" =>
            LET tx == last'.arg[1]
                ty == last'.arg[2]
            IN  IF Inside(world, tx, ty) /\ TileAt(world, tx, ty).built = None
                THEN /\ last'.ret = TRUE
                     /\ world' = [world EXCEPT !.tiles[tx + 1][ty + 1].built = last'.arg[3]]
                ELSE last'.ret = FALSE /\ world' = world
       /\ last'.op = "unbuild" =>
            LET tx == last'.arg[1]
                ty == last'.arg[2]
            IN  IF Inside(world, tx, ty) /\ TileAt(world, tx, ty).built # None
                THEN /\ last'.ret = TRUE
                     /\ world' = [world EXCEPT !.tiles[tx + 1][ty + 1].built = None]
                ELSE last'.ret = FALSE /\ world' = world
       /\ \A x \in 1..world.w, y \in 1..world.h :
            world'.tiles[x][y].built # world.tiles[x][y].built
              => (world.tiles[x][y].built = None \/ world'.tiles[x][y].built = None)
      ]_vars

(* C13 witness: a shack was refused on the tile where a craft had put a    *)
(* campfire, while a click had put another campfire on the tile to its left *)
C13_Witness ==
    /\ last.op = "place" /\ last.arg = <<1, 2, "shack">> /\ last.ret = FALSE
    /\ TileAt(world, 1, 2).built = "campfire"
    /\ Amount(player.inventory, "wood") = 0
    /\ TileAt(world, 0, 2).built = "campfire"

(* the squared distance from entity e to the player *)
Dist2(e, p) == (p.x - e.x) * (p.x - e.x) + (p.y - e.y) * (p.y - e.y)

(* C14 as stated: an Entity.update of an entity closer than 150 to the     *)
(* player, distance 0 included, completes, and leaves the entity in state  *)
(* attack with the velocity 1.2 * speed along the direction to the player *)
(* (to the whole pixel per second), or in state flee when its health is    *)
(* below 20 and the flee roll succeeded                                    *)
C14_CloseEntityAttacks ==
    [][(last'.op = "entity_update" /\ Dist2(entities[last'.arg[1]], player) < 150 * 150)
         => LET e == entities[last'.arg[1]]
                f == entities'[last'.arg[1]]
            IN  /\ last'.ret = FALSE
                /\ IF e.health < 20 /\ last'.arg[3]
                   THEN f.state = "flee"
                   ELSE /\ f.state = "attack"
                        /\ f.vx * (player.x - e.x) >= 0
                        /\ f.vy * (player.y - e.y) >= 0
                        /\ (f.vx # 0 \/ f.vy # 0)
                        /\ f.vx = TruncDiv((player.x - e.x) * ((EntitySpeed * 12) \div 10),
                                           Hypot(player.x - e.x, player.y - e.y))
                        /\ f.vy = TruncDiv((player.y - e.y) * ((EntitySpeed * 12) \div 10),
                                           Hypot(player.x - e.x, player.y - e.y))]_vars

(* the held keys give a direction: norm > 0 at line 545 *)
Moving(keys) ==
    \/ (IF "d" \in keys THEN 1 ELSE 0) # (IF "a" \in keys THEN 1 ELSE 0)
    \/ (IF "s" \in keys THEN 1 ELSE 0) # (IF "w" \in keys THEN 1 ELSE 0)

(* C15 as stated: in a Game.update in which the player moved or sprinted   *)
(* the stamina is not raised by regeneration: it ends where update_player  *)
(* left it                                                                 *)
C15_NoRegenWhileSpending ==
    [][(/\ last'.op = "update" /\ last'.ret = FALSE
        /\ (Moving(last'.arg[2]) \/ (last'.arg[3] /\ player.stamina > Tenths(1))))
         => player'.stamina
              = update_player(player, world, last'.arg[1], last'.arg[2], last'.arg[3]).stamina]_vars

(* C16 as stated: update_player lowers the stamina, down to 0 at most, by  *)
(* 7*dt when moving without sprint (sprint key up, or down with stamina    *)
(* <= 1), by 10*dt when moving with the sprint key down and stamina > 1,   *)
(* and by nothing when not moving, the sprint key down or not              *)
C16_MovementCost ==
    [][last'.op = "update_player" =>
         LET dt == last'.arg[1]
             sprint == last'.arg[3] /\ player.stamina > Tenths(1)
             cost == IF ~Moving(last'.arg[2]) THEN 0
                     ELSE IF sprint THEN dt * Tenths(10) ELSE dt * Tenths(7)
         IN  player'.stamina = Max(0, player.stamina - cost)]_vars

(* C18: the player's position is within [0, w*TILE_SIZE - 1] x             *)
(* [0, h*TILE_SIZE - 1] after every update_player and every update, with   *)
(* any keys, sprint flag and dt, so the tile under the player is a tile of *)
(* the grid                                                                *)
C18_PlayerInsideWorld ==
    /\ player.x >= 0 /\ player.x <= world.w * TILE_SIZE - 1
    /\ player.y >= 0 /\ player.y <= world.h * TILE_SIZE - 1
    /\ in_bounds(world, PlayerTx(player), PlayerTy(player))

(* C18 witness: a diagonal step of one second took the player from the     *)
(* centre to 241 without clamping x, and a second one was clamped at the   *)
(* right border, 255                                                       *)
C18_Witness ==
    /\ last.op = "update_player" /\ last.arg = <<1, {"d", "s"}, FALSE>>
    /\ frames_left = TickFrames - 2
    /\ player.x = world.w * TILE_SIZE - 1
    /\ player.y = world.h * TILE_SIZE - 1

(* C17: after a Game.load that returns, every entity is in state idle with *)
(* velocity 0, at the position its snapshot entry holds and with the       *)
(* health of that entry (50 when the entry has none)                       *)
C17_LoadedEntitiesAtRest ==
    [][(last'.op = "load" /\ last'.ret = "ok")
         => /\ Len(entities') <= Len(file[1].entities)
            /\ \A i \in 1..Len(entities') :
                 /\ entities'[i].state = "idle"
                 /\ entities'[i].vx = 0 /\ entities'[i].vy = 0
                 /\ entities'[i].x = file[1].entities[i].x
                 /\ entities'[i].y = file[1].entities[i].y
                 /\ entities'[i].health \in {file[1].entities[i].health, 50}]_vars

(* C17 witness: the snapshot was saved after a frame in which the entity   *)
(* had attacked from the corner and moved to (34, 34); the load brought it *)
(* back there, idle and at rest                                            *)
C17_Witness ==
    /\ last.op = "load" /\ last.ret = "ok"
    /\ Len(entities) = 1
    /\ entities[1].x = 34 /\ entities[1].y = 34
    /\ entities[1].state = "idle" /\ entities[1].vx = 0 /\ entities[1].vy = 0

(* the entities within the contact radius of the player *)
Touching(es, p) == { i \in 1..Len(es) : Dist2(es[i], p) < 20 * 20 }

(* C19: in every Game.update of length dt that returns, the player's       *)
(* health falls by 5*dt for each entity that is closer than 20 to the      *)
(* player after its own update, the damage of several entities adding up,  *)
(* and by nothing for an entity at 20 or more; the only other change of    *)
(* the health in the tick is the hunger and thirst penalty                 *)
C19_ContactDamagePerTick ==
    [][(last'.op = "update" /\ last'.ret = FALSE)
         => LET dt == last'.arg[1]
                penalty == (IF player'.hunger > Tenths(80) THEN dt * 5 ELSE 0)
                           + (IF player'.thirst > Tenths(90) THEN dt * 10 ELSE 0)
            IN  player'.health
                  = player.health - dt * Tenths(5) * Cardinality(Touching(entities', player'))
                      - penalty]_vars

(* C19 witness: in the second frame in a row, of one second each, two      *)
(* entities touched the player and took 5 each: 20 health are gone         *)
C19_Witness ==
    /\ last.op = "update" /\ last.ret = FALSE /\ last.arg[1] = 1
    /\ frames_left = 0
    /\ Cardinality(Touching(entities, player)) = 2
    /\ player.health = Tenths(MAX_HEALTH) - 4 * Tenths(5)

(* C20 as stated: once the player's health is <= 0 and line 509 has paused *)
(* the game for it, no later frame runs Game.update while health is still  *)
(* <= 0, whatever keys (the pause key included) are pressed in between     *)
C20_DeathIsTerminal ==
    [][(death_paused /\ player.health <= 0) => ~(frames_left' = frames_left - 1)]_vars

(* lines 470-475: the item that try_interact adds for a resource *)
ResourceItem(resource) ==
    CASE resource = RESOURCE_TREE -> "wood"
      [] resource = RESOURCE_STONE -> "stone"
      [] resource = RESOURCE_BUSH -> "berries"
      [] OTHER -> None

(* C21 as stated: whenever an interact takes k > 0 units from the resource *)
(* of the tile under the player, the node's last unit included, the        *)
(* player's stock of the matching item grows by exactly k, provided the    *)
(* inventory has the stack already or a free slot for it                   *)
C21_HarvestConserved ==
    [][LET tx == PlayerTx(player)
           ty == PlayerTy(player)
       IN  (in_bounds(world, tx, ty) /\ world' # world)
             => LET before == get_tile(world, tx, ty)
                    after == get_tile(world', tx, ty)
                    k == before.resource_amount - after.resource_amount
                    id == ResourceItem(before.resource)
                IN  (/\ before.resource # None
                     /\ k > 0
                     /\ \/ InvIndex(player.inventory.items, id) # 0
                        \/ Len(player.inventory.items) < player.inventory.capacity)
                      => Stock(player'.inventory, id) = Stock(player.inventory, id) + k]_vars

(* C22: in an Entity.update an entity in state attack or flee stays in     *)
(* attack or flee, wherever the player is; an idle or roaming entity       *)
(* enters attack only when it is closer than 150 to the player and flee    *)
(* only when its health is below 20, and otherwise stays idle or roaming   *)
C22_AttackFleeAbsorbing ==
    [][last'.op = "entity_update"
         => \A i \in 1..Len(entities) :
              LET e == entities[i]
                  f == entities'[i]
              IN  /\ f.state \in {"idle", "roam", "attack", "flee"}
                  /\ e.state \in {"attack", "flee"} => f.state \in {"attack", "flee"}
                  /\ (e.state \in {"idle", "roam"} /\ f.state = "attack")
                       => Dist2(e, player) < 150 * 150
                  /\ (e.state \in {"idle", "roam"} /\ f.state = "flee")
                       => e.health < 20]_vars

(* C22 witness: an Entity.update that made no flee roll has just moved an  *)
(* attacking entity on from a place 150 or more from the player, so it     *)
(* was attacking before the call and is attacking after it                 *)
C22_Witness ==
    /\ last.op = "entity_update" /\ last.ret = FALSE /\ ~last.arg[3]
    /\ LET e == entities[last.arg[1]]
           before == [x |-> e.x - e.vx * last.arg[2], y |-> e.y - e.vy * last.arg[2]]
       IN  /\ e.state = "attack"
           /\ Dist2(before, player) >= 150 * 150
           /\ Dist2(e, player) >= 150 * 150

(* C23: in every state, fresh, after updates and after a load, an entity   *)
(* in state idle has velocity 0, and a step other than a load leaves an    *)
(* entity that is idle after it where it was                               *)
C23_IdleIsAtRest ==
    /\ [](\A i \in 1..Len(entities) :
            entities[i].state = "idle" => (entities[i].vx = 0 /\ entities[i].vy = 0))
    /\ [][(last'.op # "load" /\ Len(entities') = Len(entities))
            => \A i \in 1..Len(entities) :
                 entities'[i].state = "idle"
                   => (entities'[i].x = entities[i].x /\ entities'[i].y = entities[i].y)]_vars

(* C23 witness: an entity that had attacked and moved was brought back by  *)
(* a load, idle, and an Entity.update since then has left it idle, at rest *)
(* and away from where it was created                                      *)
C23_Witness ==
    /\ last.op = "entity_update" /\ last.ret = FALSE
    /\ file # << >>
    /\ LET e == entities[last.arg[1]]
       IN  /\ e.state = "idle" /\ e.vx = 0 /\ e.vy = 0
           /\ <<e.x, e.y>> \notin EntityPoints
           /\ e.x = file[1].entities[last.arg[1]].x
           /\ e.y = file[1].entities[last.arg[1]].y

(* C24: in a session started without a save and never loaded, whatever     *)
(* frames and keys follow, the entity list keeps the members it was        *)
(* created with, every entity keeps health 50, and none is in state flee   *)
C24_EntitiesKeepHealth ==
    /\ Len(entities) = NumEntities
    /\ \A i \in 1..Len(entities) :
         entities[i].health = 50 /\ entities[i].state # "flee"

(* C24 witness: every frame of the session has run, the entity has been    *)
(* attacking and has cost the player health, and it still has health 50    *)
C24_Witness ==
    /\ frames_left = 0 /\ ~crashed
    /\ Len(entities) = NumEntities
    /\ entities[1].state = "attack" /\ entities[1].health = 50
    /\ Touching(entities, player) # {}
    /\ player.health < Tenths(MAX_HEALTH)

=============================================================================
